---- MODULE Spec2Model ----
(***************************************************************************)
(* Load-cell ADC sampling core: the HX711/HX717 bit-banged driver, the     *)
(* ADS1220 SPI driver (Variant A) and the ADS1256 SPI driver (Variant B).  *)
(* One driver family is chosen per behaviour (chip); the sensors of that   *)
(* family share one task_wake and one capture task.                        *)
(*                                                                         *)
(* Atomicity: a command handler and one iteration of the capture task's    *)
(* foreach_oid loop (with the read_adc it calls) are one action each; a    *)
(* timer event (interrupt context) may run between any two of them.        *)
(***************************************************************************)
EXTENDS Integers, Sequences, FiniteSets, TLC

\* ------------------------------------------------------------------ bounds

\* the object ids that may be configured as sensors of the family
Oids == {0, 1}
\* "no oid": the capture task is not inside its foreach_oid loop
NoOid == 0 - 1
\* timer ticks are counted modulo TimerMod (stands for the 2^32 of uint32_t)
TimerMod == 2
\* the rest_ticks argument of a query command that starts sampling
MaxRest == 1
\* the sample buffer holds MaxSlots records of BYTES_PER_SAMPLE bytes
MaxSlots == 2
\* the most entries one timer may have in the scheduler's list
MaxArmed == 2

Ticks == 0 .. (TimerMod - 1)
\* a query command stops (rest_ticks = 0) or starts with the interval MaxRest
RestChoices == {0, MaxRest}
\* the 24-bit words a chip delivers in the model: the ends of the positive
\* range, the midpoint, and the ends of the negative range
RawValues == {0, 8388607, 8388608, 8388609, 16777215}
\* gain_channel arguments of config_hx71x, valid and invalid
GainChoices == {0, 1, 4, 5}
\* The sensors run the same code and take every control path; to keep the
\* product of the two sample buffers small, only the chip of oid 0 delivers
\* every word and is configured with every gain.
Words(s) == IF s = 0 THEN RawValues ELSE {8388609}
Gains(s) == IF s = 0 THEN GainChoices ELSE {1}
Starts(s) == IF s = 0 THEN Ticks ELSE {0}
Chips == {"hx71x", "ads1220", "ads1256"}

\* --------------------------------------------------------------- constants

BYTES_PER_SAMPLE == 4
\* 0x80000000, as the four bytes of the uint32
SAMPLE_ERROR == << 0, 0, 0, 128 >>
HX_ERROR_READY_AFTER_READ == 1
HX_ERROR_READ_TOO_LONG == 2
HX_ERROR_OUT_OF_RANGE == 3
ADS1220_ERROR_READ_TOO_LONG == 1
ADS1220_ERROR_OUT_OF_RANGE == 2
\* MAX_READ_TIME / MAX_SPI_READ_TIME in ticks of the reduced clock
MAX_READ_TIME == 1
MAX_SPI_READ_TIME == 1
\* ARRAY_SIZE(sb.data)
ARRAY_SIZE == MaxSlots * BYTES_PER_SAMPLE

Pow2(n) == 2 ^ n

\* ------------------------------------------------------- 32-bit arithmetic
\* A 32-bit word is its four bytes, least significant first; an int32_t is
\* the integer those bytes denote in two's complement.

\* the bytes of the low 32 bits of x (\div rounds down, so x may be negative)
WordBytes(x) ==
    << x % 256, (x \div 256) % 256, (x \div 65536) % 256, (x \div 16777216) % 256 >>

\* the int32_t a 32-bit word converts to
WordInt32(b) ==
    b[1] + 256 * b[2] + 65536 * b[3]
    + 16777216 * (IF b[4] >= 128 THEN b[4] - 256 ELSE b[4])

RECURSIVE OrBits(_, _, _)
OrBits(a, b, n) ==
    IF n = 0 THEN 0
    ELSE 2 * OrBits(a \div 2, b \div 2, n - 1)
         + (IF (a % 2) + (b % 2) > 0 THEN 1 ELSE 0)

RECURSIVE XorBits(_, _, _)
XorBits(a, b, n) ==
    IF n = 0 THEN 0
    ELSE 2 * XorBits(a \div 2, b \div 2, n - 1) + (((a % 2) + (b % 2)) % 2)

\* x | y and x ^ y on 32-bit words
Or32(x, y) == [i \in 1 .. 4 |-> OrBits(x[i], y[i], 8)]
Xor32(x, y) == [i \in 1 .. 4 |-> XorBits(x[i], y[i], 8)]

\* ------------------------------------------------------------------- state

VARIABLES
    chip,        \* the driver family of this run
    adc,         \* oid -> the sensor struct
    timer_list,  \* oid -> number of entries of the sensor's timer in the scheduler
    wake,        \* the family's task_wake
    scan,        \* the oid the capture task's foreach_oid loop is at, or NoOid
    halted,      \* shutdown() was called
    fired,       \* oid -> the sensor's timer event ran since its last poll or query command
    out,         \* the messages the last action sent
    last,        \* what the last action did
    bb           \* one hx71x_read_adc call, instruction by instruction (BitSpec)

vars == <<chip, adc, timer_list, wake, scan, halted, fired, out, last, bb>>

\* the sensor struct right after oid_alloc (zero-filled memory)
BlankAdc ==
    [configured |-> FALSE, gain_channel |-> 0, pending_flag |-> 0,
     rest_ticks |-> 0, sclk |-> 0, lce |-> FALSE,
     data_count |-> 0, data |-> <<>>, possible_overflows |-> 0]

\* last: op and oid name the handler and its sensor; outcome is what a poll
\* came to; raw is the 24-bit word its decode step was given (NoRaw if it did
\* not get that far; the gain_channel argument for a config command); pre is
\* the data_count a poll started with; code is the error code a poll gave to
\* send_error, pulses the number of clock pulses it sent; now and waketime are
\* the timer_read_time() a start command's re-arm read and the timer.waketime
\* it programmed (timer.waketime is read by the scheduler only and is not kept
\* in the sensor struct of the model).  For a poll that found the chip ready,
\* start_time is the timer_read_time() before the read, elapsed the ticks the
\* read took, and readyAfter the level of the data-ready input after the read.
NoTime == 0 - 1
NoRaw == 0 - 1

NoOp == [op |-> "init", oid |-> NoOid, outcome |-> "none", raw |-> NoRaw, code |-> 0,
         pre |-> 0, now |-> NoTime, waketime |-> NoTime, pulses |-> 0,
         start_time |-> NoTime, elapsed |-> NoTime, readyAfter |-> FALSE]

\* an action the claims do not refer to (a timer event, a task step without a
\* poll, a change of a chip's output)
Quiet == [op |-> "other", oid |-> NoOid, outcome |-> "none", raw |-> NoRaw, code |-> 0,
          pre |-> 0, now |-> NoTime, waketime |-> NoTime, pulses |-> 0,
          start_time |-> NoTime, elapsed |-> NoTime, readyAfter |-> FALSE]

\* what a command handler did
DidCommand(op, oid, outcome, raw, pre, now, waketime) ==
    [op |-> op, oid |-> oid, outcome |-> outcome, raw |-> raw, code |-> 0,
     pre |-> pre, now |-> now, waketime |-> waketime, pulses |-> 0,
     start_time |-> NoTime, elapsed |-> NoTime, readyAfter |-> FALSE]

\* what a poll did
DidPoll(oid, outcome, raw, code, pre, pulses, start_time, elapsed, readyAfter) ==
    [op |-> "poll", oid |-> oid, outcome |-> outcome, raw |-> raw, code |-> code,
     pre |-> pre, now |-> NoTime, waketime |-> NoTime, pulses |-> pulses,
     start_time |-> start_time, elapsed |-> elapsed, readyAfter |-> readyAfter]

\* -------------------------------------------------------------- scheduler

\* sched_add_timer: one more entry of the timer in the scheduler's list
sched_add_timer(n) == n + 1

\* sched_del_timer: the timer is no longer scheduled
sched_del_timer(n) == 0

\* -------------------------------------------------------- the sample buffer

\* add_sample: counts (a 32-bit word) is stored byte by byte, no capacity
\* check, data_count += BYTES_PER_SAMPLE
add_sample(a, counts) ==
    [a EXCEPT !.data = SubSeq(a.data, 1, a.data_count)
                       \o << counts[1], counts[2], counts[3], counts[4] >>,
              !.data_count = a.data_count + BYTES_PER_SAMPLE]

\* sensor_bulk_report: the message sent to the host
BulkData(a, oid) ==
    [type |-> "sensor_bulk_data", oid |-> oid, data |-> a.data, counts |-> 0, time |-> 0]

\* sensor_bulk_report: the buffer after the report
sensor_bulk_report(a) == [a EXCEPT !.data_count = 0, !.data = <<>>]

\* sensor_bulk_reset
sensor_bulk_reset(a) ==
    [a EXCEPT !.data_count = 0, !.data = <<>>, !.possible_overflows = 0]

\* mutant of FlushNeeded: the buffer is reported one record before it is full
FlushNeeded_Early(a) == a.data_count + 2 * BYTES_PER_SAMPLE > ARRAY_SIZE

\* mutant of FlushNeeded: the size of the next sample is left out of the test
FlushNeeded_NoRoom(a) == a.data_count > ARRAY_SIZE

\* flush_samples: does the next sample no longer fit?
FlushNeeded(a) == a.data_count + BYTES_PER_SAMPLE > ARRAY_SIZE

\* flush_samples: the buffer afterwards
flush_samples(a) == IF FlushNeeded(a) THEN sensor_bulk_report(a) ELSE a

\* flush_samples: the messages it sends
FlushOut(a, oid) == IF FlushNeeded(a) THEN << BulkData(a, oid) >> ELSE << >>

\* mutant of send_error: the error record waits for the buffer to fill up
send_error_Deferred(a, code) ==
    LET a1 == [a EXCEPT !.pending_flag = 0]
        a2 == add_sample(a1, SAMPLE_ERROR)
        a3 == [a2 EXCEPT !.possible_overflows = code]
    IN  flush_samples(a3)

\* send_error, the sensor afterwards (hx71x and ads1220 are the same code)
send_error(a, code) ==
    LET a1 == [a EXCEPT !.pending_flag = 0]
        a2 == add_sample(a1, SAMPLE_ERROR)
        a3 == [a2 EXCEPT !.possible_overflows = code]
    IN  sensor_bulk_report(a3)

\* send_error, the message it sends
ErrorOut(a, oid, code) ==
    << BulkData([add_sample(a, SAMPLE_ERROR) EXCEPT !.possible_overflows = code], oid) >>

\* ------------------------------------------------------------ rescheduling

\* *_reschedule_timer: timer.waketime = timer_read_time() + rest_ticks
Waketime(a, now) == (now + a.rest_ticks) % TimerMod

\* hx71x_reschedule_timer / ads1220_reschedule_timer: the sensor afterwards
reschedule_timer(a) == a

\* ads1256_reschedule_timer: the sensor afterwards
ads1256_reschedule_timer(a) == [a EXCEPT !.pending_flag = 1]

Reschedule(c, a) ==
    IF c = "ads1256" THEN ads1256_reschedule_timer(a) ELSE reschedule_timer(a)

\* ------------------------------------------------------------------ decode

\* hx71x_read_adc: counts = (counts << 1) | bit, for the 24 bits of v, msb first
RECURSIVE ShiftIn(_, _, _)
ShiftIn(counts, v, idx) ==
    IF idx = 24 THEN counts
    ELSE ShiftIn(2 * counts + ((v \div Pow2(23 - idx)) % 2), v, idx + 1)

\* (msg[0] << 16) | (msg[1] << 8) | msg[2] of the three bytes read over SPI
SpiWord(v) ==
    LET msg == << (v \div 65536) % 256, (v \div 256) % 256, v % 256 >>
    IN  msg[1] * 65536 + msg[2] * 256 + msg[3]

\* mutant of Decode: the sign extension is missing
Decode_NoSignExtend(counts) ==
    IF counts = 8388608 THEN 0 ELSE counts

\* mutant of Decode: the -0 rule is missing
Decode_NoMidpoint(counts) ==
    IF counts >= 8388608 THEN WordInt32(Or32(WordBytes(counts), << 0, 0, 0, 255 >>))
    ELSE counts

\* hx71x / ads1220: the -0 rule and the sign extension
Decode(counts) ==
    IF counts = 8388608 THEN 0
    ELSE IF counts > 8388608 THEN WordInt32(Or32(WordBytes(counts), << 0, 0, 0, 255 >>))
    ELSE counts

\* hx71x / ads1220: the range check
OutOfRange(counts) == counts < -8388607 \/ counts > 8388607

\* mutant of Ads1256Decode: the 24-bit word is moved to the top of the int32
\* and not shifted back
Ads1256Decode_Shifted(counts_original) ==
    LET b == WordBytes(counts_original)
    IN  WordInt32(<< 0, b[1], b[2], b[3] >>)

\* ads1256: (counts_original ^ m) - m with m = 1u << 23, as int32_t
Ads1256Decode(counts_original) ==
    LET m == Pow2(23)
        x == WordInt32(Xor32(WordBytes(counts_original), WordBytes(m)))
    IN  WordInt32(WordBytes(x - m))

\* The decode steps of the three drivers for the words of the model, worked
\* out once: the 24 bits shifted in and decoded (hx71x), the three bytes put
\* together and decoded (ads1220, ads1256).
hx71x_counts == [v \in RawValues |-> Decode(ShiftIn(0, v, 0))]
ads1220_counts == [v \in RawValues |-> Decode(SpiWord(v))]
ads1256_counts == [v \in RawValues |-> Ads1256Decode(SpiWord(v))]

\* ----------------------------------------------------------------- drivers
\* A driver's result: the sensor afterwards, the number of sched_add_timer
\* calls, the messages sent, whether shutdown() was called, the outcome,
\* whether the decode step was reached, the error code given to send_error,
\* and the number of clock pulses sent (hx71x_pulse_clocks calls).  rdy is the level of the data-ready input at the first check,
\* readyAfter (hx71x) at the check after the read.

\* mutant of ReadTooLong: a read that takes exactly the maximum is let through
ReadTooLong_Exclusive(time_diff, max) == time_diff > max

\* if (time_diff >= MAX_READ_TIME), if (time_diff >= MAX_SPI_READ_TIME)
ReadTooLong(time_diff, max) == time_diff >= max

Result(a, arm, msgs, halt, outcome, decoded, code, pulses) ==
    [a |-> a, arm |-> arm, out |-> msgs, halt |-> halt, outcome |-> outcome,
     decoded |-> decoded, code |-> code, pulses |-> pulses]

\* mutant of PulseCount: the gain and channel pulses are left out
PulseCount_NoGain(a) == 24

\* the calls of hx71x_pulse_clocks in one read: 24 in the first loop,
\* gain_channel in the second
PulseCount(a) == 24 + a.gain_channel

\* mutant of DeferredPoll: the not-ready path returns without re-arming
DeferredPoll_NoRearm(c, a) == Result(a, 0, << >>, FALSE, "deferred", FALSE, 0, 0)

\* if (!*_is_data_ready(...)) { *_reschedule_timer(...); return; }
DeferredPoll(c, a) == Result(Reschedule(c, a), 1, << >>, FALSE, "deferred", FALSE, 0, 0)

\* mutant of hx71x_read_adc: the duration is checked before the data line
hx71x_read_adc_TimeFirst(a, oid, rdy, v, readyAfter, t0, t1) ==
    IF ~rdy THEN DeferredPoll("hx71x", a)
    ELSE
    LET b == [a EXCEPT !.sclk = 0]
        time_diff == (t1 - t0) % TimerMod
        counts == hx71x_counts[v]
        pulses == PulseCount(a)
    IN  IF ReadTooLong(time_diff, MAX_READ_TIME)
        THEN Result(send_error(b, HX_ERROR_READ_TOO_LONG), 0,
                    ErrorOut(b, oid, HX_ERROR_READ_TOO_LONG), FALSE, "error", FALSE, HX_ERROR_READ_TOO_LONG,
                    pulses)
        ELSE IF readyAfter
        THEN Result(send_error(b, HX_ERROR_READY_AFTER_READ), 0,
                    ErrorOut(b, oid, HX_ERROR_READY_AFTER_READ), FALSE, "error", FALSE, HX_ERROR_READY_AFTER_READ,
                    pulses)
        ELSE IF OutOfRange(counts)
        THEN Result(send_error(b, HX_ERROR_OUT_OF_RANGE), 0,
                    ErrorOut(b, oid, HX_ERROR_OUT_OF_RANGE), FALSE, "error", TRUE, HX_ERROR_OUT_OF_RANGE,
                    pulses)
        ELSE LET b1 == add_sample(b, WordBytes(counts))
                 b2 == flush_samples(b1)
                 b3 == [b2 EXCEPT !.pending_flag = 0]
             IN  Result(reschedule_timer(b3), 1, FlushOut(b1, oid), FALSE,
                        "sample", TRUE, 0, pulses)

hx71x_read_adc(a, oid, rdy, v, readyAfter, t0, t1) ==
    IF ~rdy THEN DeferredPoll("hx71x", a)
    ELSE
    LET b == [a EXCEPT !.sclk = 0]
        time_diff == (t1 - t0) % TimerMod
        counts == hx71x_counts[v]
        pulses == PulseCount(a)
    IN  IF readyAfter
        THEN Result(send_error(b, HX_ERROR_READY_AFTER_READ), 0,
                    ErrorOut(b, oid, HX_ERROR_READY_AFTER_READ), FALSE, "error", FALSE, HX_ERROR_READY_AFTER_READ,
                    pulses)
        ELSE IF ReadTooLong(time_diff, MAX_READ_TIME)
        THEN Result(send_error(b, HX_ERROR_READ_TOO_LONG), 0,
                    ErrorOut(b, oid, HX_ERROR_READ_TOO_LONG), FALSE, "error", FALSE, HX_ERROR_READ_TOO_LONG,
                    pulses)
        ELSE IF OutOfRange(counts)
        THEN Result(send_error(b, HX_ERROR_OUT_OF_RANGE), 0,
                    ErrorOut(b, oid, HX_ERROR_OUT_OF_RANGE), FALSE, "error", TRUE, HX_ERROR_OUT_OF_RANGE,
                    pulses)
        ELSE LET b1 == add_sample(b, WordBytes(counts))
                 b2 == flush_samples(b1)
                 b3 == [b2 EXCEPT !.pending_flag = 0]
             IN  Result(reschedule_timer(b3), 1, FlushOut(b1, oid), FALSE,
                        "sample", TRUE, 0, pulses)

ads1220_read_adc(a, oid, rdy, v, t0, t1) ==
    IF ~rdy THEN DeferredPoll("ads1220", a)
    ELSE
    LET time_diff == (t1 - t0) % TimerMod
        counts == ads1220_counts[v]
    IN  IF ReadTooLong(time_diff, MAX_SPI_READ_TIME)
        THEN Result(send_error(a, ADS1220_ERROR_READ_TOO_LONG), 0,
                    ErrorOut(a, oid, ADS1220_ERROR_READ_TOO_LONG), FALSE, "error", FALSE, ADS1220_ERROR_READ_TOO_LONG, 0)
        ELSE IF OutOfRange(counts)
        THEN Result(send_error(a, ADS1220_ERROR_OUT_OF_RANGE), 0,
                    ErrorOut(a, oid, ADS1220_ERROR_OUT_OF_RANGE), FALSE, "error", TRUE, ADS1220_ERROR_OUT_OF_RANGE, 0)
        ELSE LET b1 == add_sample(a, WordBytes(counts))
                 b2 == flush_samples(b1)
                 b3 == [b2 EXCEPT !.pending_flag = 0]
             IN  Result(reschedule_timer(b3), 1, FlushOut(b1, oid), FALSE,
                        "sample", TRUE, 0, 0)

\* mutant of EndstopOut: the sample is forwarded whether or not a consumer is attached
EndstopOut_Always(a, oid, counts, t0) ==
    << [type |-> "endstop_sample", oid |-> oid, data |-> << >>,
        counts |-> counts, time |-> t0] >>

\* load_cell_endstop_report_sample(lce, counts, start_time)
EndstopOut(a, oid, counts, t0) ==
    IF a.lce
    THEN << [type |-> "endstop_sample", oid |-> oid, data |-> << >>,
             counts |-> counts, time |-> t0] >>
    ELSE << >>

ads1256_read_adc(a, oid, rdy, v, t0, t1) ==
    IF ~rdy THEN DeferredPoll("ads1256", a)
    ELSE
    LET time_diff == (t1 - t0) % TimerMod
        counts == ads1256_counts[v]
    IN  IF ReadTooLong(time_diff, MAX_SPI_READ_TIME)
        THEN Result(a, 0, << >>, TRUE, "halt", FALSE, 0, 0)
        ELSE IF counts = -1
        THEN Result(a, 0, << >>, TRUE, "halt", TRUE, 0, 0)
        ELSE IF counts >= 8388608
        THEN Result(a, 0, << >>, TRUE, "halt", TRUE, 0, 0)
        ELSE LET b1 == add_sample(a, WordBytes(counts))
                 b2 == flush_samples(b1)
             IN  Result(ads1256_reschedule_timer(b2), 1,
                        EndstopOut(a, oid, counts, t0) \o FlushOut(b1, oid), FALSE,
                        "sample", TRUE, 0, 0)

read_adc(c, a, oid, rdy, v, readyAfter, t0, t1) ==
    IF c = "hx71x" THEN hx71x_read_adc(a, oid, rdy, v, readyAfter, t0, t1)
    ELSE IF c = "ads1220" THEN ads1220_read_adc(a, oid, rdy, v, t0, t1)
    ELSE ads1256_read_adc(a, oid, rdy, v, t0, t1)

\* ------------------------------------------------------------------ actions

\* bb outside a call of hx71x_read_adc: interrupts enabled, clock low.  pc is
\* the next instruction, irq_off the interrupt mask, sclk the clock output,
\* idx the clock pulses sent, counts the bits shifted in so far, v the word
\* the chip delivers, gain_channel the sensor's field, pend the pending flag
\* as the timer events of the family leave it, and split whether a timer
\* event ran between the falling edge of a pulse and the read of its bit.
BitIdle ==
    [pc |-> "idle", irq_off |-> FALSE, sclk |-> 0, idx |-> 0, counts |-> 0,
     v |-> 0, gain_channel |-> 1, pend |-> FALSE, split |-> FALSE]

Init ==
    /\ chip \in Chips
    /\ adc = [s \in Oids |-> BlankAdc]
    /\ timer_list = [s \in Oids |-> 0]
    /\ wake = FALSE
    /\ scan = NoOid
    /\ halted = FALSE
    /\ fired = [s \in Oids |-> FALSE]
    /\ out = << >>
    /\ last = NoOp
    /\ bb = BitIdle

\* a command handler runs as a task: not inside the capture task, not after shutdown
CommandContext == ~halted /\ scan = NoOid

\* command_config_hx71x
command_config_hx71x(s, gain) ==
    /\ chip = "hx71x"
    /\ CommandContext
    /\ ~adc[s].configured
    /\ IF gain < 1 \/ gain > 4
       THEN /\ adc' = [adc EXCEPT ![s] = [BlankAdc EXCEPT !.configured = TRUE]]
            /\ halted' = TRUE
            /\ last' = DidCommand("config", s, "halt", gain, 0, NoTime, NoTime)
       ELSE /\ adc' = [adc EXCEPT ![s] = [BlankAdc EXCEPT !.configured = TRUE,
                                                          !.gain_channel = gain,
                                                          !.sclk = 1]]
            /\ halted' = FALSE
            /\ last' = DidCommand("config", s, "none", gain, 0, NoTime, NoTime)
    /\ out' = << >>
    /\ UNCHANGED <<chip, timer_list, wake, scan, fired, bb>>

\* command_config_ads1220 / command_config_ads1256
command_config_ads(s) ==
    /\ chip \in {"ads1220", "ads1256"}
    /\ CommandContext
    /\ ~adc[s].configured
    /\ adc' = [adc EXCEPT ![s] = [BlankAdc EXCEPT !.configured = TRUE]]
    /\ out' = << >>
    /\ last' = DidCommand("config", s, "none", NoRaw, 0, NoTime, NoTime)
    /\ UNCHANGED <<chip, timer_list, wake, scan, halted, fired, bb>>

\* command_attach_endstop_ads1256
command_attach_endstop_ads1256(s) ==
    /\ chip = "ads1256"
    /\ CommandContext
    /\ adc[s].configured
    /\ adc' = [adc EXCEPT ![s].lce = TRUE]
    /\ out' = << >>
    /\ last' = Quiet
    /\ UNCHANGED <<chip, timer_list, wake, scan, halted, fired, bb>>

\* mutant of QueryAdc: the handler does not clear the pending flag
QueryAdc_KeepPending(c, a, rest_ticks) ==
    LET a1 == [a EXCEPT !.rest_ticks = rest_ticks]
    IN  IF rest_ticks = 0
        THEN IF c = "hx71x" THEN [a1 EXCEPT !.sclk = 1] ELSE a1
        ELSE LET a2 == IF c = "hx71x" THEN [a1 EXCEPT !.sclk = 0] ELSE a1
             IN  Reschedule(c, sensor_bulk_reset(a2))

\* mutant of QueryAdc: the buffer is reset before rest_ticks is looked at
QueryAdc_ResetOnStop(c, a, rest_ticks) ==
    LET a1 == sensor_bulk_reset([a EXCEPT !.pending_flag = 0, !.rest_ticks = rest_ticks])
    IN  IF rest_ticks = 0
        THEN IF c = "hx71x" THEN [a1 EXCEPT !.sclk = 1] ELSE a1
        ELSE LET a2 == IF c = "hx71x" THEN [a1 EXCEPT !.sclk = 0] ELSE a1
             IN  Reschedule(c, a2)

\* command_query_hx71x / command_query_ads1220 / command_query_ads1256: the
\* sensor after the handler
QueryAdc(c, a, rest_ticks) ==
    LET a1 == [a EXCEPT !.pending_flag = 0, !.rest_ticks = rest_ticks]
    IN  IF rest_ticks = 0
        THEN IF c = "hx71x" THEN [a1 EXCEPT !.sclk = 1] ELSE a1
        ELSE LET a2 == IF c = "hx71x" THEN [a1 EXCEPT !.sclk = 0] ELSE a1
             IN  Reschedule(c, sensor_bulk_reset(a2))

\* the timer's entries after the handler
QueryTimer(n, rest_ticks) ==
    IF rest_ticks = 0 THEN sched_del_timer(n) ELSE sched_add_timer(sched_del_timer(n))

\* now: the timer_read_time() of the re-arm; a stop returns before reading it
command_query(s, rest_ticks, now) ==
    /\ CommandContext
    /\ adc[s].configured
    /\ adc' = [adc EXCEPT ![s] = QueryAdc(chip, adc[s], rest_ticks)]
    /\ timer_list' = [timer_list EXCEPT ![s] = QueryTimer(timer_list[s], rest_ticks)]
    /\ out' = << >>
    /\ last' = IF rest_ticks = 0
               THEN DidCommand("stop", s,
                               IF last.op = "stop" /\ last.oid = s THEN "repeated" ELSE "none",
                               NoRaw, 0, NoTime, NoTime)
               ELSE DidCommand("start", s, "none", NoRaw, 0,
                               now, Waketime(adc'[s], now))
    /\ fired' = [fired EXCEPT ![s] = FALSE]
    /\ UNCHANGED <<chip, wake, scan, halted, bb>>

\* hx71x_event / ads1220_event / ads1256_event: interrupt context, SF_DONE
timer_event(s) ==
    /\ ~halted
    /\ timer_list[s] > 0
    /\ timer_list' = [timer_list EXCEPT ![s] = timer_list[s] - 1]
    /\ adc' = [adc EXCEPT ![s].pending_flag = 1]
    /\ wake' = TRUE
    /\ fired' = [fired EXCEPT ![s] = TRUE]
    /\ out' = << >>
    /\ last' = Quiet
    /\ UNCHANGED <<chip, scan, halted, bb>>

\* foreach_oid: the oid after s, or NoOid at the end of the loop
NextOid(s) ==
    IF \E t \in Oids : t > s
    THEN CHOOSE t \in Oids : t > s /\ \A u \in Oids : u > s => t <= u
    ELSE NoOid

FirstOid == CHOOSE t \in Oids : \A u \in Oids : t <= u

\* capture_task: sched_check_wake succeeded, the loop starts
capture_task_wake ==
    /\ ~halted
    /\ scan = NoOid
    /\ wake
    /\ wake' = FALSE
    /\ scan' = FirstOid
    /\ out' = << >>
    /\ last' = Quiet
    /\ UNCHANGED <<chip, adc, timer_list, halted, fired, bb>>

\* capture_task: one iteration of foreach_oid for a sensor that is not pending
capture_task_skip(s) ==
    /\ ~halted
    /\ scan = s
    /\ ~(adc[s].configured /\ adc[s].pending_flag = 1)
    /\ scan' = NextOid(s)
    /\ out' = << >>
    /\ last' = Quiet
    /\ UNCHANGED <<chip, adc, timer_list, wake, halted, fired, bb>>

\* what a poll reads from its environment: rdy, the data-ready input at the
\* first check; v, the 24-bit word the chip delivers; readyAfter, the
\* data-ready input after the read (hx71x); t0, timer_read_time() before the
\* read; took, the ticks the read takes, so that timer_read_time() after it is
\* t0 + took on the wrapping counter.  A poll that finds the chip not ready
\* reads nothing else.
\* The reads of oid 0 start at every tick, those of the other sensors at tick 0.
PollInputs(c, s) ==
    { [rdy |-> FALSE, v |-> 0, readyAfter |-> FALSE, t0 |-> 0, took |-> 0] }
    \cup { [rdy |-> TRUE, v |-> v, readyAfter |-> ra, t0 |-> t0, took |-> took] :
             v \in Words(s),
             ra \in (IF c = "hx71x" THEN BOOLEAN ELSE {FALSE}),
             t0 \in Starts(s), took \in Ticks }

\* what a poll reads in a run without faults and with one word on the bus
QuietInputs(c, s) ==
    { in \in PollInputs(c, s) :
        ~in.rdy \/ (in.v = 8388609 /\ ~in.readyAfter /\ in.t0 = 0 /\ in.took = 0) }

\* capture_task: one iteration of foreach_oid for a pending sensor: read_adc,
\* with what it reads taken from inputs
capture_task_poll_in(s, inputs) ==
    /\ ~halted
    /\ scan = s
    /\ adc[s].configured /\ adc[s].pending_flag = 1
    /\ \E in \in inputs :
         \E r \in {read_adc(chip, adc[s], s, in.rdy, in.v, in.readyAfter,
                             in.t0, (in.t0 + in.took) % TimerMod)} :
         LET v == in.v
         IN  /\ timer_list[s] + r.arm <= MaxArmed
             /\ adc' = [adc EXCEPT ![s] = r.a]
             /\ timer_list' = [timer_list EXCEPT
                                 ![s] = IF r.arm = 1 THEN sched_add_timer(timer_list[s])
                                        ELSE timer_list[s]]
             /\ halted' = r.halt
             /\ out' = r.out
             /\ last' = DidPoll(s, r.outcome, IF r.decoded THEN v ELSE NoRaw, r.code,
                                adc[s].data_count, r.pulses,
                                IF in.rdy THEN in.t0 ELSE NoTime,
                                IF in.rdy THEN in.took ELSE NoTime,
                                in.readyAfter)
             /\ fired' = [fired EXCEPT ![s] = FALSE]
             /\ scan' = IF r.halt THEN scan ELSE NextOid(s)
    /\ UNCHANGED <<chip, wake, bb>>

capture_task_poll(s) == capture_task_poll_in(s, PollInputs(chip, s))

\* the capture task's poll in a run without faults
capture_task_poll_quiet(s) == capture_task_poll_in(s, QuietInputs(chip, s))

Next ==
    \/ \E s \in Oids : \E gain \in Gains(s) : command_config_hx71x(s, gain)
    \/ \E s \in Oids : command_config_ads(s)
    \/ \E s \in Oids : command_attach_endstop_ads1256(s)
    \/ \E s \in Oids, rest_ticks \in RestChoices :
          \E now \in (IF rest_ticks = 0 THEN {0} ELSE Ticks) : command_query(s, rest_ticks, now)
    \/ \E s \in Oids : timer_event(s)
    \/ capture_task_wake
    \/ \E s \in Oids : capture_task_skip(s)
    \/ \E s \in Oids : capture_task_poll(s)

Spec == Init /\ [][Next]_vars

\* the next step of the capture task, wherever it is in its loop
capture_task_step ==
    \/ capture_task_wake
    \/ \E s \in Oids : capture_task_skip(s)
    \/ \E s \in Oids : capture_task_poll_quiet(s)

\* The timer interrupt runs every timer that is due, and the scheduler's main
\* loop runs every task over and over: a timer event that stays possible
\* happens, and so does the next step of the capture task.
Fairness ==
    /\ \A s \in Oids : WF_vars(timer_event(s))
    /\ WF_vars(capture_task_step)

\* The sensors in a run without faults: every command with a valid
\* gain_channel, every read within its time budget, one word on the bus, the
\* chip ready or not at each poll.
LiveNext ==
    \/ \E s \in Oids : command_config_hx71x(s, 1)
    \/ \E s \in Oids : command_config_ads(s)
    \/ \E s \in Oids, rest_ticks \in RestChoices : command_query(s, rest_ticks, 0)
    \/ \E s \in Oids : timer_event(s)
    \/ capture_task_wake
    \/ \E s \in Oids : capture_task_skip(s)
    \/ \E s \in Oids : capture_task_poll_quiet(s)

LiveSpec == Init /\ [][LiveNext]_vars /\ Fairness

\* ------------------------------------------ the bit-banged read, step by step
\* BitSpec follows calls of hx71x_read_adc for one sensor instruction by
\* instruction, with the timer events of the family running wherever
\* interrupts are enabled.  The sensor's fields it needs are kept in bb; the
\* state of Spec stays as it is after construction.

Frozen == UNCHANGED <<chip, adc, timer_list, wake, scan, halted, fired, out, last>>

BitInit ==
    /\ chip = "hx71x"
    /\ adc = [s \in Oids |-> BlankAdc]
    /\ timer_list = [s \in Oids |-> 0]
    /\ wake = FALSE
    /\ scan = NoOid
    /\ halted = FALSE
    /\ fired = [s \in Oids |-> FALSE]
    /\ out = << >>
    /\ last = NoOp
    /\ \E g \in {x \in GainChoices : x >= 1 /\ x <= 4} :
          bb = [BitIdle EXCEPT !.gain_channel = g]

\* hx71x_read_adc, chip not ready: hx71x_reschedule_timer and return
read_deferred ==
    /\ bb.pc = "idle"
    /\ bb' = [bb EXCEPT !.pc = "done", !.idx = 0, !.counts = 0, !.split = FALSE]
    /\ Frozen

\* hx71x_read_adc, chip ready: counts = 0, start_time, the first pulse
read_enter(v) ==
    /\ bb.pc = "idle"
    /\ bb' = [bb EXCEPT !.pc = "irq_disable", !.idx = 0, !.counts = 0, !.v = v,
                        !.split = FALSE]
    /\ Frozen

\* hx71x_pulse_clocks: irq_disable()
pulse_irq_disable ==
    /\ bb.pc = "irq_disable"
    /\ bb' = [bb EXCEPT !.pc = "high", !.irq_off = TRUE]
    /\ Frozen

\* hx71x_pulse_clocks: gpio_out_write(sclk, 1)
pulse_high ==
    /\ bb.pc = "high"
    /\ bb' = [bb EXCEPT !.pc = "delay_high", !.sclk = 1]
    /\ Frozen

\* hx71x_pulse_clocks: hx71x_delay_no_irq, clock high
pulse_delay_high ==
    /\ bb.pc = "delay_high"
    /\ bb' = [bb EXCEPT !.pc = "low"]
    /\ Frozen

\* hx71x_pulse_clocks: gpio_out_write(sclk, 0)
pulse_low ==
    /\ bb.pc = "low"
    /\ bb' = [bb EXCEPT !.pc = "delay_low", !.sclk = 0]
    /\ Frozen

\* hx71x_pulse_clocks: hx71x_delay_no_irq, clock low
pulse_delay_low ==
    /\ bb.pc = "delay_low"
    /\ bb' = [bb EXCEPT !.pc = "irq_enable"]
    /\ Frozen

\* hx71x_pulse_clocks: irq_enable() and return: to the read of the bit in the
\* first loop, to the next pulse or the end of the loop in the second
pulse_irq_enable ==
    /\ bb.pc = "irq_enable"
    /\ bb' = [bb EXCEPT !.irq_off = FALSE,
                        !.idx = bb.idx + 1,
                        !.pc = IF bb.idx < 24 THEN "read_bit"
                               ELSE IF bb.idx + 1 < 24 + bb.gain_channel THEN "irq_disable"
                               ELSE "finish"]
    /\ Frozen

\* counts = (counts << 1) | gpio_in_read(dout), then the next pulse
read_bit ==
    /\ bb.pc = "read_bit"
    /\ bb' = [bb EXCEPT !.counts = 2 * bb.counts + ((bb.v \div Pow2(24 - bb.idx)) % 2),
                        !.pc = "irq_disable"]
    /\ Frozen

\* the checks after the pulses, send_error or add_sample, flush_samples and
\* hx71x_reschedule_timer (which disables and enables interrupts itself)
read_finish ==
    /\ bb.pc = "finish"
    /\ bb' = [bb EXCEPT !.pc = "done", !.pend = FALSE]
    /\ Frozen

\* hx71x_read_adc returns
read_return ==
    /\ bb.pc = "done"
    /\ bb' = [bb EXCEPT !.pc = "idle"]
    /\ Frozen

\* hx71x_event of a sensor of the family: runs wherever interrupts are enabled
bit_timer_event ==
    /\ ~bb.irq_off
    /\ bb' = [bb EXCEPT !.pend = TRUE,
                        !.split = bb.split \/ bb.pc = "read_bit"]
    /\ Frozen

BitNext ==
    \/ read_deferred
    \/ \E v \in RawValues : read_enter(v)
    \/ pulse_irq_disable
    \/ pulse_high
    \/ pulse_delay_high
    \/ pulse_low
    \/ pulse_delay_low
    \/ pulse_irq_enable
    \/ read_bit
    \/ read_finish
    \/ read_return
    \/ bit_timer_event

BitSpec == BitInit /\ [][BitNext]_vars

TypeOK ==
    /\ chip \in Chips
    /\ wake \in BOOLEAN
    /\ halted \in BOOLEAN
    /\ scan \in Oids \cup {NoOid}
    /\ fired \in [Oids -> BOOLEAN]
    /\ \A s \in Oids : adc[s].data_count = Len(adc[s].data)

\* ------------------------------------------------------------------ claims

\* the sensor the last action polled
Polled(s) == last.op = "poll" /\ last.oid = s

\* the last poll appended a record (a sample or an error sentinel)
Appended == last.op = "poll" /\ last.outcome \in {"sample", "error"}

\* the last action sent the sensor's buffer to the host
Flushed == \E i \in 1 .. Len(out) : out[i].type = "sensor_bulk_data"

\* the bytes the last action sent to the host
FlushedData == (CHOOSE m \in {out[i] : i \in 1 .. Len(out)} : m.type = "sensor_bulk_data").data

\* the record the last poll appended: the four bytes at the end of what it
\* flushed, or at the end of the buffer if it flushed nothing
AppendedRecord ==
    LET src == IF Flushed THEN FlushedData ELSE adc[last.oid].data
    IN  SubSeq(src, Len(src) - 3, Len(src))

\* C1: whenever a poll of a running sensor returns, its timer is armed again,
\* whatever the outcome; so in every non-halted state a sensor with
\* rest_ticks != 0 has an outstanding timer or a pending poll.
C1_RearmedAfterEveryPoll ==
    ~halted =>
        \A s \in Oids :
            adc[s].rest_ticks # 0 =>
                /\ timer_list[s] > 0 \/ adc[s].pending_flag = 1
                /\ Polled(s) => timer_list[s] > 0

\* C2: the pending flag is false when a poll attempt returns (sample,
\* deferred or error), and a command never leaves it set: only the sensor's
\* timer event sets it.
C2_PendingClearedByPoll ==
    \A s \in Oids :
        /\ (Polled(s) /\ last.outcome \in {"sample", "deferred", "error"})
              => adc[s].pending_flag = 0
        /\ (last.op \in {"start", "stop"} /\ last.oid = s) => adc[s].pending_flag = 0

\* C3: each sensor has at most one outstanding timer.
C3_AtMostOneTimer == \A s \in Oids : timer_list[s] <= 1

\* C4: 0 <= data_count <= capacity, data_count is a multiple of 4, and every
\* append (sample or error sentinel) starts with data_count + 4 <= capacity.
C4_BufferBounds ==
    /\ \A s \in Oids :
          /\ adc[s].data_count >= 0
          /\ adc[s].data_count <= ARRAY_SIZE
          /\ adc[s].data_count % 4 = 0
          /\ adc[s].data_count + BYTES_PER_SAMPLE <= ARRAY_SIZE
    /\ Appended => last.pre + BYTES_PER_SAMPLE <= ARRAY_SIZE

\* C4 witness: an error sentinel was appended into the last free slot
C4_Witness ==
    /\ last.op = "poll" /\ last.outcome = "error"
    /\ last.pre = ARRAY_SIZE - BYTES_PER_SAMPLE

\* C5: in the hx71x and ads1220 drivers a failed poll appends exactly one
\* record, the sentinel, stores its error code in possible_overflows and
\* flushes exactly once whatever the fill level: data_count is 0 when the
\* poll returns and the flushed bytes end with the sentinel.
C5_ErrorFlushed ==
    (last.op = "poll" /\ last.outcome = "error") =>
        /\ chip \in {"hx71x", "ads1220"}
        /\ adc[last.oid].data_count = 0
        /\ adc[last.oid].possible_overflows = last.code
        /\ last.code # 0
        /\ Len(out) = 1
        /\ out[1].type = "sensor_bulk_data"
        /\ out[1].oid = last.oid
        /\ Len(out[1].data) = last.pre + BYTES_PER_SAMPLE
        /\ SubSeq(out[1].data, last.pre + 1, last.pre + BYTES_PER_SAMPLE) = SAMPLE_ERROR

\* C5 witness: a failed poll that started with data_count = capacity - 4
C5_Witness ==
    /\ last.op = "poll" /\ last.outcome = "error"
    /\ last.pre + BYTES_PER_SAMPLE = ARRAY_SIZE
    /\ Len(out) = 1
    /\ adc[last.oid].data_count = 0

\* what the spec's table gives for a 24-bit word v
Expected(v) ==
    IF v = 8388608 THEN 0
    ELSE IF v <= 8388607 THEN v
    ELSE v - 16777216

\* C6: in the hx71x and ads1220 drivers the decode step yields 0 for
\* 0x800000, v for v in [0, 0x7FFFFF] and v | 0xFF000000 (as int32, that is
\* v - 2^24) for v in [0x800001, 0xFFFFFF]; a decoded value outside
\* [-0x7FFFFF, 0x7FFFFF] gives an out-of-range error record, not a sample.
C6_Decode ==
    (last.op = "poll" /\ last.raw # NoRaw /\ chip \in {"hx71x", "ads1220"}) =>
        IF Expected(last.raw) < -8388607 \/ Expected(last.raw) > 8388607
        THEN /\ last.outcome = "error"
             /\ last.code = (IF chip = "hx71x" THEN HX_ERROR_OUT_OF_RANGE
                             ELSE ADS1220_ERROR_OUT_OF_RANGE)
        ELSE /\ last.outcome = "sample"
             /\ WordInt32(AppendedRecord) = Expected(last.raw)

\* C6 witness: the most negative word was decoded and appended
C6_Witness ==
    /\ last.op = "poll" /\ last.outcome = "sample"
    /\ chip = "hx71x"
    /\ last.raw = 8388609
    /\ WordInt32(AppendedRecord) = -8388607

\* C7: in all three drivers the record a poll appends is the sentinel
\* 0x80000000 if and only if the poll failed.
C7_SentinelIffFailed ==
    Appended => ((AppendedRecord = SAMPLE_ERROR) <=> (last.outcome = "error"))

\* C7 witness: the ads1256 driver appended the sample closest to the sentinel
C7_Witness ==
    /\ last.op = "poll" /\ last.outcome = "sample"
    /\ chip = "ads1256"
    /\ last.raw = 8388608
    /\ AppendedRecord = << 0, 0, 128, 255 >>

\* C8: stop leaves the sensor with no outstanding timer, pending false,
\* rest_ticks = 0 and (hx71x) the clock output high, does not touch the
\* buffer, and a second stop in a row changes nothing of the sensor.
C8_StopIdempotent ==
    [][\A s \in Oids :
          (last'.op = "stop" /\ last'.oid = s) =>
              /\ timer_list'[s] = 0
              /\ adc'[s].pending_flag = 0
              /\ adc'[s].rest_ticks = 0
              /\ (chip = "hx71x") => (adc'[s].sclk = 1)
              /\ adc'[s].data = adc[s].data
              /\ adc'[s].data_count = adc[s].data_count
              /\ (last.op = "stop" /\ last.oid = s) =>
                    (adc'[s] = adc[s] /\ timer_list'[s] = timer_list[s])]_vars

\* C8 witness: a second stop in a row, of a sensor with a sample in its buffer
C8_Witness ==
    /\ last.op = "stop" /\ last.outcome = "repeated"
    /\ adc[last.oid].data_count > 0
    /\ timer_list[last.oid] = 0

\* C9: start with a nonzero interval leaves data_count = 0, pending false
\* and exactly one outstanding timer, due at now + rest_ticks.
C9_StartArmsOnce ==
    \A s \in Oids :
        (last.op = "start" /\ last.oid = s) =>
            /\ adc[s].data_count = 0
            /\ adc[s].pending_flag = 0
            /\ timer_list[s] = 1
            /\ last.waketime = (last.now + adc[s].rest_ticks) % TimerMod

\* C10: in the ads1256 driver a raw word of 0xFFFFFF and a raw word of
\* 0x800000 each halt: no sample, no error record, no re-arm.
C10_Ads1256Halts ==
    (chip = "ads1256" /\ last.op = "poll" /\ last.raw \in {16777215, 8388608}) =>
        /\ halted
        /\ last.outcome = "halt"
        /\ out = << >>
        /\ adc[last.oid].data_count = last.pre

\* the read-time budget of the chip's driver
MaxTime(c) == IF c = "hx71x" THEN MAX_READ_TIME ELSE MAX_SPI_READ_TIME

\* the last action was a poll whose read ran (the chip was ready)
ReadRan == last.op = "poll" /\ last.elapsed # NoTime

\* C11: in every chip variant a read that overruns its time budget gives a
\* sentinel record with an error code and does not halt; a poll halts only
\* on a decode code of the ads1256 driver.
C11_OverrunRecoverable ==
    /\ (ReadRan /\ last.elapsed >= MaxTime(chip)) =>
          /\ ~halted
          /\ last.outcome = "error"
          /\ last.code # 0
          /\ AppendedRecord = SAMPLE_ERROR
    /\ (last.op = "poll" /\ last.outcome = "halt") =>
          (chip = "ads1256" /\ last.raw # NoRaw)

\* the error code of a read that took too long
TooLongCode(c) ==
    IF c = "hx71x" THEN HX_ERROR_READ_TOO_LONG ELSE ADS1220_ERROR_READ_TOO_LONG

\* C12: the read-duration check is inclusive: a read that took exactly the
\* maximum (or more) ticks, measured on the wrapping tick counter, is
\* rejected as too long, and a read that took less and passes the other
\* checks is accepted as a sample.
C12_InclusiveBoundary ==
    (ReadRan /\ ~last.readyAfter) =>
        IF last.elapsed >= MaxTime(chip)
        THEN /\ last.outcome # "sample"
             /\ chip \in {"hx71x", "ads1220"} =>
                   (last.outcome = "error" /\ last.code = TooLongCode(chip))
        ELSE /\ last.code # TooLongCode(chip) \/ last.outcome # "error"
             /\ (chip \in {"hx71x", "ads1220"} /\ ~OutOfRange(Expected(last.raw)))
                   => last.outcome = "sample"

\* C12 witness: an hx71x read that started at the last tick before the
\* counter wraps and took exactly MAX_READ_TIME ticks was rejected
C12_Witness ==
    /\ chip = "hx71x" /\ ReadRan /\ ~last.readyAfter
    /\ last.start_time = TimerMod - 1
    /\ last.elapsed = MAX_READ_TIME
    /\ last.outcome = "error" /\ last.code = HX_ERROR_READ_TOO_LONG

\* the last action was a poll of s that found the chip not ready
Deferred(s) == Polled(s) /\ last.outcome = "deferred"

\* the last action was a poll of s that failed
Faulted(s) == Polled(s) /\ last.outcome \in {"error", "halt"}

\* the last action was a poll of s that appended a sample
Sampled(s) == Polled(s) /\ last.outcome = "sample"

\* the last action was a query command for s
Queried(s) == last.op \in {"start", "stop"} /\ last.oid = s

\* a step that is a poll of s finding the chip not ready: buffer and error
\* field stay as they are, nothing is sent, the timer is armed
DeferredStep(s) ==
    Deferred(s)' =>
        /\ adc'[s].data = adc[s].data
        /\ adc'[s].data_count = adc[s].data_count
        /\ adc'[s].possible_overflows = adc[s].possible_overflows
        /\ adc'[s].rest_ticks = adc[s].rest_ticks
        /\ out' = << >>
        /\ ~halted'
        /\ timer_list'[s] = timer_list[s] + 1

FlushCount == Cardinality({i \in 1 .. Len(out) : out[i].type = "sensor_bulk_data"})

\* C14: on the success path the buffer is flushed exactly when, after the
\* append, data_count + 4 > capacity: the report then carries capacity / 4
\* records, never fewer, and data_count is 0 after it; otherwise nothing is
\* sent and data_count has grown by 4.
C14_FlushWhenFull ==
    \A s \in Oids :
        Sampled(s) =>
            IF last.pre + 2 * BYTES_PER_SAMPLE > ARRAY_SIZE
            THEN /\ FlushCount = 1
                 /\ Len(FlushedData) = ARRAY_SIZE
                 /\ Len(FlushedData) = MaxSlots * BYTES_PER_SAMPLE
                 /\ adc[s].data_count = 0
            ELSE /\ FlushCount = 0
                 /\ adc[s].data_count = last.pre + BYTES_PER_SAMPLE

\* C14 witness: the append that fills the buffer was followed by the flush
C14_Witness ==
    /\ last.op = "poll" /\ last.outcome = "sample"
    /\ last.pre = (MaxSlots - 1) * BYTES_PER_SAMPLE
    /\ FlushCount = 1
    /\ Len(FlushedData) = ARRAY_SIZE
    /\ adc[last.oid].data_count = 0

\* C15: a sensor's driver is invoked only after that sensor's own timer event
\* has run since its previous poll or start, so a sensor is never polled
\* because of the timer event of another sensor.
C15_PolledAfterOwnFire ==
    [][\A s \in Oids : Polled(s)' => fired[s]]_vars

\* the sensor is configured and not running: never started, or stopped
Stopped(s) == adc[s].configured /\ adc[s].rest_ticks = 0

\* C16: from a stop command to the next start the stopped sensor has no
\* timer and no pending poll, its driver is not invoked and nothing of it is
\* sent to the host, whatever the task wake and the other sensors do.
C16_NoPollAfterStop ==
    \A s \in Oids :
        Stopped(s) =>
            /\ timer_list[s] = 0
            /\ adc[s].pending_flag = 0
            /\ ~Polled(s)
            /\ \A i \in 1 .. Len(out) : out[i].oid # s

\* C16 witness: the capture task, woken by another running sensor, has passed
\* a stopped sensor that still holds a sample
C16_Witness ==
    /\ Stopped(0) /\ adc[0].data_count > 0
    /\ adc[1].rest_ticks # 0
    /\ scan = NextOid(0)
    /\ ~halted

\* C17: in the hx71x driver both half-pulses of every clock pulse and the
\* read of the data line for each of the 24 bits happen with interrupts
\* disabled, so no timer event runs between a clock edge and the read of its
\* bit; interrupts are enabled wherever the driver is left.
C17_BitBangAtomic ==
    /\ bb.pc \in {"high", "delay_high", "low", "delay_low", "irq_enable", "read_bit"}
          => bb.irq_off
    /\ ~bb.split
    /\ bb.pc \in {"idle", "done"} => ~bb.irq_off

\* the places in out of the samples forwarded to the endstop
Forwarded == {i \in 1 .. Len(out) : out[i].type = "endstop_sample"}

\* C18: in the ads1256 driver with an endstop attached every appended sample
\* is forwarded exactly once, with the appended value and the time read at
\* the start of that read, before the buffer is flushed; nothing is
\* forwarded for a deferred poll or a halted read, or with no endstop
\* attached.
C18_EndstopForward ==
    IF chip = "ads1256" /\ last.op = "poll" /\ last.outcome = "sample"
       /\ adc[last.oid].lce
    THEN /\ Forwarded = {1}
         /\ out[1].oid = last.oid
         /\ out[1].counts = WordInt32(AppendedRecord)
         /\ out[1].time = last.start_time
         /\ Len(out) = 1 + FlushCount
    ELSE Forwarded = {}

\* C18 witness: a negative sample that fills the buffer is forwarded, then
\* the buffer is flushed
C18_Witness ==
    /\ chip = "ads1256" /\ last.op = "poll" /\ last.outcome = "sample"
    /\ adc[last.oid].lce
    /\ last.raw = 8388609
    /\ last.start_time = TimerMod - 1
    /\ Len(out) = 2
    /\ out[1].type = "endstop_sample" /\ out[1].counts = -8388607
    /\ out[1].time = TimerMod - 1
    /\ out[2].type = "sensor_bulk_data"

\* C19: in the hx71x driver a configuration with gain_channel outside 1..4
\* halts, a poll that finds the chip ready sends exactly 24 + gain_channel
\* clock pulses (25 to 28) whatever its outcome and leaves the clock low, and
\* a poll that finds the chip not ready sends no pulse.
C19_PulseCount ==
    chip = "hx71x" =>
        /\ (last.op = "config" /\ (last.raw < 1 \/ last.raw > 4)) => halted
        /\ (last.op = "config" /\ last.raw >= 1 /\ last.raw <= 4) =>
              (~halted /\ adc[last.oid].gain_channel = last.raw)
        /\ (last.op = "poll" /\ last.outcome = "deferred") => last.pulses = 0
        /\ (last.op = "poll" /\ last.outcome # "deferred") =>
              /\ last.outcome \in {"sample", "error"}
              /\ last.pulses = 24 + adc[last.oid].gain_channel
              /\ last.pulses >= 25 /\ last.pulses <= 28
              /\ adc[last.oid].sclk = 0

\* C19 witness: a failed poll of a sensor configured with gain_channel 4
C19_Witness ==
    /\ chip = "hx71x" /\ last.op = "poll" /\ last.outcome = "error"
    /\ adc[last.oid].gain_channel = 4
    /\ last.pulses = 28
    /\ adc[last.oid].sclk = 0

\* the error code the hx71x driver is to give a ready poll: the first fault
\* in the order data ready again, read too long, value out of range; 0 if
\* there is none
FirstFault ==
    IF last.readyAfter THEN HX_ERROR_READY_AFTER_READ
    ELSE IF last.elapsed >= MAX_READ_TIME THEN HX_ERROR_READ_TOO_LONG
    ELSE IF OutOfRange(Expected(last.raw)) THEN HX_ERROR_OUT_OF_RANGE
    ELSE 0

\* C20: in the hx71x driver a poll that finds the chip ready produces
\* exactly one buffer record; with several faults at once the error code is
\* the first of: data ready again after the read (1), read duration >=
\* maximum (2), decoded value out of range (3); a sample is appended only
\* when there is no fault.
C20_FirstFaultWins ==
    (chip = "hx71x" /\ ReadRan) =>
        /\ last.code = FirstFault
        /\ (last.outcome = "sample") <=> (FirstFault = 0)
        /\ (last.outcome = "error") <=> (FirstFault # 0)
        /\ last.outcome = "error" =>
              /\ AppendedRecord = SAMPLE_ERROR
              /\ adc[last.oid].possible_overflows = FirstFault
        /\ IF Flushed
           THEN /\ FlushCount = 1
                /\ Len(FlushedData) = last.pre + BYTES_PER_SAMPLE
                /\ adc[last.oid].data_count = 0
           ELSE adc[last.oid].data_count = last.pre + BYTES_PER_SAMPLE

\* C20 witness: the data line was ready again after a read that also took
\* too long, and the record carries the code of the first fault
C20_Witness ==
    /\ chip = "hx71x" /\ ReadRan
    /\ last.readyAfter /\ last.elapsed >= MAX_READ_TIME
    /\ last.outcome = "error" /\ last.code = HX_ERROR_READY_AFTER_READ
    /\ adc[last.oid].possible_overflows = HX_ERROR_READY_AFTER_READ

\* the out-of-range code of the driver
RangeCode(c) ==
    IF c = "hx71x" THEN HX_ERROR_OUT_OF_RANGE ELSE ADS1220_ERROR_OUT_OF_RANGE

\* 24-bit words around every bit boundary: 2^k - 1, 2^k, 2^k + 1 and their
\* complements 2^24 - 1 - w
SweepWords ==
    LET near == UNION {{Pow2(k) - 1, Pow2(k), Pow2(k) + 1} : k \in 0 .. 24}
        low  == {w \in near : w <= 16777215}
    IN  low \cup {16777215 - w : w \in low}

\* both drivers' decode of every word of the sweep is within the range
SweepInRange ==
    \A v \in SweepWords :
        /\ ~OutOfRange(Decode(ShiftIn(0, v, 0)))
        /\ ~OutOfRange(Decode(SpiWord(v)))
        /\ Decode(ShiftIn(0, v, 0)) # -8388608
        /\ Decode(SpiWord(v)) # -8388608

\* C21: in the hx71x and ads1220 drivers the out-of-range error cannot
\* happen: the decoded value of every 24-bit word lies in
\* [-0x7FFFFF, 0x7FFFFF], no error record carries the out-of-range code,
\* and the value -0x800000 is never produced.
C21_RangeErrorUnreachable ==
    /\ SweepInRange
    /\ (chip \in {"hx71x", "ads1220"} /\ last.op = "poll") =>
          /\ last.code # RangeCode(chip)
          /\ last.outcome = "error" =>
                adc[last.oid].possible_overflows # RangeCode(chip)
          /\ last.raw # NoRaw =>
                /\ last.outcome = "sample"
                /\ WordInt32(AppendedRecord) \in -8388607 .. 8388607

\* C21 witness: the ads1220 driver decoded the word 0x800001, the most
\* negative one, and appended -0x7FFFFF as a sample
C21_Witness ==
    /\ chip = "ads1220" /\ last.op = "poll"
    /\ last.raw = 8388609
    /\ last.outcome = "sample"
    /\ WordInt32(AppendedRecord) = -8388607

====
